---- MODULE Spec2Model ----
(***************************************************************************)
(* FloatChat: the chat-session controller of src/src/context/Context.jsx   *)
(* (ContextProvider) together with the controls of Main.jsx and the        *)
(* sidebar that invoke it.                                                 *)
(*                                                                         *)
(* React state is one variable per useState hook, refs are variables too.  *)
(* A handler runs atomically on the values of the latest render; the       *)
(* continuation of onSent after its await and the timer callbacks run on   *)
(* the values captured when onSent was invoked (its closure), which the    *)
(* model keeps in the request / playback records.                          *)
(* Strings are sequences of one-character strings, so that trim, split     *)
(* and substring are computed as the code computes them.                   *)
(***************************************************************************)
EXTENDS Integers, Sequences, FiniteSets, TLC

VARIABLES
    input,               \* useState("")            Context.jsx:6
    recentPrompt,        \* useState("")            Context.jsx:7
    prevPrompts,         \* useState([])            Context.jsx:8
    loading,             \* useState(false)         Context.jsx:10
    resultData,          \* useState("")            Context.jsx:11
    conversationHistory, \* useState([])            Context.jsx:12
    chats,               \* useState([])            Context.jsx:13
    currentChatIndex,    \* useState(null)          Context.jsx:14
    isStopped,           \* useState(false)         Context.jsx:15
    currentChatIsFull,   \* useState(false)         Context.jsx:19
    abortControllerRef,  \* useRef(null)            Context.jsx:22
    timeoutRefs,         \* useRef([])              Context.jsx:23
    requests,            \* fetch calls awaiting their response (Context.jsx:132)
    playbacks,           \* text answers whose timers were scheduled (Context.jsx:176-225)
    timers,              \* timers scheduled by setTimeout, not yet fired nor cleared
    nextId,              \* number of the next request issued
    crashed,             \* a state updater threw: React unmounted the tree
    lastOp               \* history: the operation of the last step

vars == << input, recentPrompt, prevPrompts, loading, resultData,
           conversationHistory, chats, currentChatIndex, isStopped,
           currentChatIsFull, abortControllerRef, timeoutRefs,
           requests, playbacks, timers, nextId, crashed, lastOp >>

reactState == << input, recentPrompt, prevPrompts, loading,
                 resultData, conversationHistory, chats, currentChatIndex,
                 isStopped, currentChatIsFull >>

-----------------------------------------------------------------------------
(* Bounds of the model *)

\* accepted sends (requests issued) in one run
MaxSends == 2
\* the same, in the runs of SpecLong
LongSends == 3

\* memoryLimit of Context.jsx:20 is 10; the model runs it scaled down so that
\* a session fills within MaxSends exchanges (spec.md section 8 does the same)
memoryLimit == 2

-----------------------------------------------------------------------------
(* Program constants *)

\* delayPara: 75 * index                       Context.jsx:30
delayPerToken == 75
\* totalDurationMs = 75 * length + 100         Context.jsx:182
tailMargin == 100
\* userQuery.substring(0, 20)                  Context.jsx:156, 192
titleLength == 20
\* the granularity of the model's clock: the time between the last token
\* and a delay of the tail margin (the gcd of the two delays)
tickMs == tailMargin - delayPerToken

\* null of JavaScript (currentChatIndex, abortControllerRef.current)
Null == -1

EmptyStr == << >>
SP == " "

\* "Sorry, I'm having trouble connecting to my backend."   Context.jsx:232
Apology ==
    << "S","o","r","r","y",","," ","I","'","m"," ","h","a","v","i","n","g"," ",
       "t","r","o","u","b","l","e"," ","c","o","n","n","e","c","t","i","n","g",
       " ","t","o"," ","m","y"," ","b","a","c","k","e","n","d","." >>

-----------------------------------------------------------------------------
(* The inputs of the model *)

HiThere == << "h","i"," ","t","h","e","r","e" >>
GraphPath == << "g",".","p","n","g" >>

\* what the user may type into the input field
Inputs == { EmptyStr, << "a" >> }

\* a question longer than a title, and one of white space only
LongQuery ==
    << "s","h","o","w"," ","t","h","e"," ","s","e","a"," ",
       "s","a","l","i","n","i","t","y" >>
WideInputs == { << SP >>, LongQuery }
\* the long question alone (and the field cleared)
TitleInputs == { EmptyStr, LongQuery }

\* what the service may answer: {ok, message, graph_path}; ok = FALSE stands
\* for a non-2xx status and for a rejected fetch (both reach the catch)
Responses ==
    { [ok |-> TRUE,  message |-> HiThere,  graph_path |-> EmptyStr],
      [ok |-> TRUE,  message |-> EmptyStr, graph_path |-> GraphPath],
      [ok |-> FALSE, message |-> EmptyStr, graph_path |-> EmptyStr] }

-----------------------------------------------------------------------------
(* String functions of JavaScript *)

Min(a, b) == IF a <= b THEN a ELSE b

\* String.prototype.trim (the only white space of the model is " ")
RECURSIVE TrimLeft(_)
TrimLeft(s) == IF s # << >> /\ Head(s) = SP THEN TrimLeft(Tail(s)) ELSE s

RECURSIVE TrimRight(_)
TrimRight(s) ==
    IF s # << >> /\ s[Len(s)] = SP THEN TrimRight(SubSeq(s, 1, Len(s) - 1)) ELSE s

Trim(s) == TrimRight(TrimLeft(s))

\* String.prototype.substring(0, n)
Substring0(s, n) == SubSeq(s, 1, Min(n, Len(s)))

\* String.prototype.split(" "): "a b" -> ["a","b"], "" -> [""], " a" -> ["","a"]
RECURSIVE SplitFrom(_, _)
SplitFrom(s, cur) ==
    IF s = << >> THEN << cur >>
    ELSE IF Head(s) = SP THEN << cur >> \o SplitFrom(Tail(s), << >>)
    ELSE SplitFrom(Tail(s), Append(cur, Head(s)))

Split(s) == SplitFrom(s, << >>)

Range(f) == { f[i] : i \in DOMAIN f }

-----------------------------------------------------------------------------
(* The environment: requests, timers and the clock *)

\* the requests and playbacks that have not run to their end
InFlight == { r.id : r \in requests } \cup { t[1] : t \in timers }

\* history: the operation a step performs, the request (or index) it is
\* about, and the handlers that ran while that request was in flight
DidTo(op, arg, after) == [op |-> op, arg |-> arg, after |-> after]
Did(op, arg) == DidTo(op, arg, {})

\* clearTimeout for every id of timeoutRefs.current    Context.jsx:37, 115
ClearTimers(pending, refs) == pending \ Range(refs)

\* a playback stays in the model while one of its timers is pending
Prune(pbs, pending) ==
    SelectSeq(pbs, LAMBDA p : \E t \in pending : t[1] = p.id)

\* a faulty schedule: the tokens counted from one
TokenDelayFromOne(index) == delayPerToken * (index + 1)

\* setTimeout delays: token index at 75 * index, finalize at 75 * length + 100
TokenDelay(index) == delayPerToken * index
TotalDurationMs(words) == delayPerToken * Len(words) + tailMargin

PlaybackOf(id) ==
    playbacks[CHOOSE i \in DOMAIN playbacks : playbacks[i].id = id]
PositionOf(id) == CHOOSE i \in DOMAIN playbacks : playbacks[i].id = id

\* timer <<id, j>>: j < length is the token timer of word j, j = length is
\* the finalize timer
IsFinalize(t) == t[2] = Len(PlaybackOf(t[1]).words)
DelayOf(t) ==
    IF IsFinalize(t) THEN TotalDurationMs(PlaybackOf(t[1]).words)
    ELSE TokenDelay(t[2])

DueTimers == { t \in timers : PlaybackOf(t[1]).elapsed >= DelayOf(t) }

\* timers that are due run in the order of their due time, then of creation
Before(t, u) ==
    \/ PositionOf(t[1]) < PositionOf(u[1])
    \/ PositionOf(t[1]) = PositionOf(u[1]) /\ t[2] <= u[2]
FirstDue == CHOOSE t \in DueTimers : \A u \in DueTimers : Before(t, u)

-----------------------------------------------------------------------------
(* MemoryPolicy *)

\* a faulty policy: full only past the limit
IsFullPastLimit(memory) == Len(memory) > memoryLimit

\* newMemory.length >= memoryLimit      Context.jsx:84, 201, 210
IsFull(memory) == Len(memory) >= memoryLimit

Init ==
    /\ input = EmptyStr
    /\ recentPrompt = EmptyStr
    /\ prevPrompts = << >>
    /\ loading = FALSE
    /\ resultData = EmptyStr
    /\ conversationHistory = << >>
    /\ chats = << >>
    /\ currentChatIndex = Null
    /\ isStopped = FALSE
    /\ currentChatIsFull = FALSE
    /\ abortControllerRef = Null
    /\ timeoutRefs = << >>
    /\ requests = {}
    /\ playbacks = << >>
    /\ timers = {}
    /\ nextId = 1
    /\ crashed = FALSE
    /\ lastOp = Did("init", 0)

-----------------------------------------------------------------------------
(* ContextProvider: the handlers *)

\* history, kept in the record of each request and playback (field
\* "after"): the handlers that ran while it was in flight.  An accepted
\* onSent ends the period that follows a newChat and the one that follows
\* a stopGeneration ("stop": stopped, and no send since).
After(rec, op) ==
    [rec EXCEPT !.after =
        IF op = "onSent" THEN (@ \ { "newChat", "stop" }) \cup { op }
        ELSE IF op = "stopGeneration" THEN @ \cup { op, "stop" }
        ELSE @ \cup { op }]
MarkRequests(reqs, op) == { After(r, op) : r \in reqs }
MarkPlaybacks(pbs, op) == [i \in DOMAIN pbs |-> After(pbs[i], op)]

\* abortControllerRef.current.abort(): the pending fetch rejects with an
\* AbortError, which the catch of onSent only logs     Context.jsx:39-41, 228-229
Abort(reqs, ctrl) == { r \in reqs : r.id # ctrl }

\* a faulty onSent: its guard dropped
SendNeverRejected == FALSE

\* if (currentChatIsFull) return;                      Context.jsx:107-109
SendRejected == currentChatIsFull

\* the fetch issued by onSent, with what its continuation captured; and
\* history (field "alone"): no earlier request was outstanding at this send
\* (the timers of earlier playbacks are cleared by the send itself)
NewRequest(userQuery) ==
    [id |-> nextId, userQuery |-> userQuery, idx |-> currentChatIndex,
     stopped |-> isStopped, after |-> {}, alone |-> requests = {}]

\* onSent() up to its await; prompt is undefined at its only call site
\* (Main.jsx:32), so userQuery = input                 Context.jsx:106-137
onSent ==
    IF SendRejected
    THEN UNCHANGED << recentPrompt, prevPrompts, loading,
                      resultData, conversationHistory, chats,
                      currentChatIndex, isStopped, currentChatIsFull, abortControllerRef, timeoutRefs,
                      requests, playbacks, timers, nextId, crashed >>
    ELSE          /\ resultData' = EmptyStr
         /\ loading' = TRUE
         /\ isStopped' = FALSE
         /\ timers' = ClearTimers(timers, timeoutRefs)
         /\ playbacks' = MarkPlaybacks(Prune(playbacks, timers'), "onSent")
         /\ timeoutRefs' = << >>
         /\ recentPrompt' = input
         /\ abortControllerRef' = nextId
         /\ requests' = MarkRequests(requests, "onSent")
                             \cup { NewRequest(input) }
         /\ nextId' = nextId + 1
         /\ UNCHANGED << prevPrompts, conversationHistory, chats,
                         currentChatIndex, currentChatIsFull,
                         crashed >>

\* handleSend: onSent(); setInput('')                  Main.jsx:30-40
handleSend ==
    /\ ~crashed
    /\ onSent
    /\ input' = EmptyStr
    /\ lastOp' = IF SendRejected THEN Did("sendRejected", 0)
                  ELSE Did("send", nextId)

\* handleKeyPress: Enter with input.trim() non-empty   Main.jsx:42-46
handleKeyPress ==
    /\ Trim(input) # EmptyStr
    /\ handleSend

\* onChange of the input field: setInput(e.target.value)   Main.jsx:149
setInput(value) ==
    /\ ~crashed
    /\ value # input
    /\ input' = value
    /\ lastOp' = Did("setInput", 0)
    /\ UNCHANGED << recentPrompt, prevPrompts, loading, resultData,
                    conversationHistory, chats, currentChatIndex, isStopped,
                    currentChatIsFull, abortControllerRef,
                    timeoutRefs, requests, playbacks, timers, nextId, crashed >>

\* a faulty newChat: the active session kept
newChatKeepingSession ==
    /\ ~crashed
    /\ loading' = FALSE
    /\ conversationHistory' = << >>
    /\ recentPrompt' = EmptyStr
    /\ resultData' = EmptyStr
    /\ lastOp' = Did("newChat", 0)
    /\ requests' = MarkRequests(requests, "newChat")
    /\ playbacks' = MarkPlaybacks(playbacks, "newChat")
    /\ UNCHANGED << input, prevPrompts, chats, isStopped, abortControllerRef,
                    timeoutRefs, timers, nextId, crashed, currentChatIndex,
                    currentChatIsFull >>

\* newChat                                             Context.jsx:59-68
newChat ==
    /\ ~crashed
    /\ loading' = FALSE
    /\ conversationHistory' = << >>
    /\ recentPrompt' = EmptyStr
    /\ resultData' = EmptyStr
    /\ currentChatIndex' = Null
    /\ currentChatIsFull' = FALSE
    /\ lastOp' = Did("newChat", 0)
    /\ requests' = MarkRequests(requests, "newChat")
    /\ playbacks' = MarkPlaybacks(playbacks, "newChat")
    /\ UNCHANGED << input, prevPrompts, chats, isStopped, abortControllerRef,
                    timeoutRefs, timers, nextId, crashed >>

\* if (index < 0 || index >= chats.length) return;     Context.jsx:94
IndexOutOfRange(index) == index < 0 \/ index >= Len(chats)

\* a faulty openChat: the transient state reset before the index is checked
openChatResetting(index) ==
    /\ ~crashed
    /\ loading' = FALSE
    /\ recentPrompt' = EmptyStr
    /\ resultData' = EmptyStr
    /\ IF IndexOutOfRange(index)
       THEN /\ lastOp' = Did("openChatRejected", index)
            /\ UNCHANGED << currentChatIndex, conversationHistory,
                            currentChatIsFull, requests, playbacks >>
       ELSE /\ currentChatIndex' = index
            /\ conversationHistory' = chats[index + 1].messages
            /\ currentChatIsFull' = chats[index + 1].isMemoryFull
            /\ lastOp' = Did("openChat", index)
            /\ requests' = MarkRequests(requests, "openChat")
            /\ playbacks' = MarkPlaybacks(playbacks, "openChat")
    /\ UNCHANGED << input, prevPrompts, chats, isStopped, abortControllerRef,
                    timeoutRefs, timers, nextId, crashed >>

\* openChat(index)                                     Context.jsx:93-104
openChat(index) ==
    /\ ~crashed
    /\ IF IndexOutOfRange(index)
       THEN /\ lastOp' = Did("openChatRejected", index)
            /\ UNCHANGED << currentChatIndex, conversationHistory, loading,
                            recentPrompt, resultData, currentChatIsFull,
                            requests, playbacks >>
       ELSE /\ currentChatIndex' = index
            /\ conversationHistory' = chats[index + 1].messages
            /\ loading' = FALSE
            /\ recentPrompt' = EmptyStr
            /\ resultData' = EmptyStr
            /\ currentChatIsFull' = chats[index + 1].isMemoryFull
            /\ lastOp' = Did("openChat", index)
            /\ requests' = MarkRequests(requests, "openChat")
            /\ playbacks' = MarkPlaybacks(playbacks, "openChat")
    /\ UNCHANGED << input, prevPrompts, chats, isStopped, abortControllerRef,
                    timeoutRefs, timers, nextId, crashed >>

\* a faulty stop: the question committed in place of the partial answer
PartialMessageOfPrompt == [question |-> recentPrompt, answer |-> recentPrompt]

\* the message stopGeneration commits                  Context.jsx:44
PartialMessage == [question |-> recentPrompt, answer |-> resultData]

\* if (resultData.trim())                              Context.jsx:43
HasPartial == Trim(resultData) # EmptyStr

\* a faulty updater: the new message takes the place of the stored ones
AppendMessageReplacing(prevChats, index, newMessage) ==
    [prevChats EXCEPT ![index + 1].messages = << newMessage >>]

\* the setChats updater of stopGeneration              Context.jsx:46-52
AppendMessage(prevChats, index, newMessage) ==
    [prevChats EXCEPT ![index + 1].messages = Append(@, newMessage)]

\* history: the time since the latest playback started
StopTime ==
    IF playbacks = << >> THEN 0 ELSE playbacks[Len(playbacks)].elapsed

\* stopGeneration                                      Context.jsx:34-57
\* With no active session the updater spreads updatedChat.messages of
\* {...undefined}: it throws a TypeError and React unmounts the tree.
stopGeneration ==
    /\ ~crashed
    /\ timers' = ClearTimers(timers, timeoutRefs)
    /\ playbacks' = MarkPlaybacks(Prune(playbacks, timers'), "stopGeneration")
    /\ timeoutRefs' = << >>
    /\ requests' = MarkRequests(Abort(requests, abortControllerRef),
                                "stopGeneration")
    /\ lastOp' = Did("stopGeneration", StopTime)
    /\ IF HasPartial /\ currentChatIndex = Null
       THEN /\ crashed' = TRUE
            /\ UNCHANGED reactState
       ELSE /\ loading' = FALSE
            /\ IF HasPartial
               THEN /\ conversationHistory' =
                           Append(conversationHistory, PartialMessage)
                    /\ chats' = AppendMessage(chats, currentChatIndex,
                                              PartialMessage)
               ELSE UNCHANGED << conversationHistory, chats >>
            /\ resultData' = EmptyStr
            /\ isStopped' = FALSE
            /\ input' = recentPrompt
            /\ UNCHANGED << recentPrompt, prevPrompts, currentChatIndex, currentChatIsFull, crashed >>
    /\ UNCHANGED << abortControllerRef, nextId >>

-----------------------------------------------------------------------------
(* onSent after its await: the response of the service *)

\* a faulty commit: the whole question taken as the title
NewSessionWholeTitle(userQuery, newMessage, memory, isMemoryFull) ==
    [title |-> userQuery,
     messages |-> << newMessage >>,
     memory |-> memory,
     isMemoryFull |-> isMemoryFull]

\* the session a commit creates when currentChatIndex was null
\*                                                     Context.jsx:155-160, 191-196
NewSession(userQuery, newMessage, memory, isMemoryFull) ==
    [title |-> Substring0(userQuery, titleLength),
     messages |-> << newMessage >>,
     memory |-> memory,
     isMemoryFull |-> isMemoryFull]

\* a faulty graph branch: the chart exchange stored in the memory too
GraphCommitRemembered(prevChats, idx, userQuery, newMessage) ==
    IF idx = Null
    THEN Append(prevChats,
                NewSession(userQuery, newMessage, << newMessage >>, FALSE))
    ELSE [prevChats EXCEPT ![idx + 1].messages = Append(@, newMessage),
                           ![idx + 1].memory = Append(@, newMessage)]

\* the setChats updater of the graph branch            Context.jsx:152-170
GraphCommit(prevChats, idx, userQuery, newMessage) ==
    IF idx = Null
    THEN Append(prevChats, NewSession(userQuery, newMessage, << >>, FALSE))
    ELSE AppendMessage(prevChats, idx, newMessage)

\* the memory entry of a text exchange                 Context.jsx:194, 208
MemoryEntry(userQuery, botResponse) ==
    [question |-> userQuery, answer |-> botResponse]

\* a faulty finalize: the accumulator committed in place of the answer
TextMessageOfAccumulator(userQuery, botResponse) ==
    [question |-> userQuery, answer |-> resultData]

\* newMessage of the finalize timer                    Context.jsx:185
TextMessage(userQuery, botResponse) ==
    [question |-> userQuery, answer |-> botResponse]

\* updatedChat of the finalize timer                   Context.jsx:206-213
UpdatedChat(chat, userQuery, botResponse, newMessage) ==
    LET memory == Append(chat.memory, MemoryEntry(userQuery, botResponse))
    IN  [chat EXCEPT !.messages = Append(@, newMessage),
                     !.memory = memory,
                     !.isMemoryFull = IF IsFull(memory) THEN TRUE ELSE @]

\* the setChats updater of the finalize timer          Context.jsx:188-218
TextCommit(prevChats, idx, userQuery, botResponse, newMessage) ==
    IF idx = Null
    THEN Append(prevChats,
                NewSession(userQuery, newMessage,
                           << MemoryEntry(userQuery, botResponse) >>,
                           IsFull(<< MemoryEntry(userQuery, botResponse) >>)))
    ELSE [prevChats EXCEPT ![idx + 1] =
              UpdatedChat(@, userQuery, botResponse, newMessage)]

\* how often React applies the updater of one setChats call.  The setters
\* below are called from inside that updater, once each time it is applied;
\* the root that could ask for more (main.jsx) is outside the source, and
\* spec.md section 5 has every transition applied once, atomically.
UpdaterRuns == 1

\* a faulty commit: the pointer set one past the new session
CommitPointersPastEnd(idx, userQuery) ==
    IF idx = Null
    THEN /\ prevPrompts' = Append(prevPrompts,
                                  Substring0(userQuery, titleLength))
         /\ currentChatIndex' = Len(chats')
    ELSE UNCHANGED << prevPrompts, currentChatIndex >>

\* a faulty commit: the sidebar entry of the new session left out
CommitPointersUnlisted(idx, userQuery) ==
    IF idx = Null
    THEN /\ prevPrompts' = prevPrompts
         /\ currentChatIndex' = Len(chats') - 1
    ELSE UNCHANGED << prevPrompts, currentChatIndex >>

\* the state set beside setChats by a commit with closure index idx:
\* setPrevPrompts, setCurrentChatIndex                 Context.jsx:162-163, 198-199
CommitPointers(idx, userQuery) ==
    IF idx = Null
    THEN /\ prevPrompts' = prevPrompts \o
                               [k \in 1..UpdaterRuns |->
                                   Substring0(userQuery, titleLength)]
         /\ currentChatIndex' = Len(chats')  - 1
    ELSE UNCHANGED << prevPrompts, currentChatIndex >>

\* setCurrentChatIsFull(true) of the finalize timer, when the memory of
\* the session it wrote to reached the limit          Context.jsx:201-204, 210-213
CommitFullness(idx) ==
    currentChatIsFull' =
        IF IsFull(chats'[IF idx = Null THEN Len(chats') ELSE idx + 1].memory)
        THEN TRUE ELSE currentChatIsFull

\* catch (error), not an AbortError                    Context.jsx:230-237
ApologyMessage(userQuery) == [question |-> userQuery, answer |-> Apology]

onFailure(r) ==
    /\ conversationHistory' =
           Append(conversationHistory, ApologyMessage(r.userQuery))
    /\ loading' = FALSE
    /\ resultData' = EmptyStr
    /\ input' = EmptyStr
    /\ UNCHANGED << recentPrompt, prevPrompts, chats,
                    currentChatIndex, isStopped, currentChatIsFull, timeoutRefs, playbacks, timers >>

\* if (graphPath)                                      Context.jsx:149-173
GraphMessage(userQuery, graphPath) ==
    [question |-> userQuery, graph_path |-> graphPath]

onGraph(r, graphPath) ==
    /\ conversationHistory' =
           Append(conversationHistory, GraphMessage(r.userQuery, graphPath))
    /\ chats' = GraphCommit(chats, r.idx, r.userQuery,
                            GraphMessage(r.userQuery, graphPath))
    /\ CommitPointers(r.idx, r.userQuery)
    /\ loading' = FALSE
    /\ resultData' = EmptyStr
    /\ input' = EmptyStr
    /\ UNCHANGED << recentPrompt, isStopped, currentChatIsFull, timeoutRefs, playbacks, timers >>

\* the ids delayPara and onSent push to timeoutRefs    Context.jsx:31, 225
TimerIds(id, words) == [j \in 1..(Len(words) + 1) |-> << id, j - 1 >>]

\* text: one timer per word and the finalize timer     Context.jsx:176-225
onText(r, botResponse) ==
    LET words == Split(botResponse)
    IN  /\ playbacks' = Append(playbacks,
               [id |-> r.id, userQuery |-> r.userQuery, idx |-> r.idx,
                stopped |-> r.stopped, after |-> r.after, alone |-> r.alone,
                botResponse |-> botResponse,
                words |-> words, elapsed |-> 0])
        /\ timers' = timers \cup Range(TimerIds(r.id, words))
        /\ timeoutRefs' = timeoutRefs \o TimerIds(r.id, words)
        /\ UNCHANGED reactState

\* const botResponse = data.message || null; botResponse.split throws a
\* TypeError on null, which the catch treats as a failure  Context.jsx:139-147, 176
Respond(r, resp) ==
    /\ ~crashed
    /\ r \in requests
    /\ requests' = requests \ { r }
    /\ IF ~resp.ok
       THEN onFailure(r) /\ lastOp' = DidTo("respondFailed", r.id, r.after)
       ELSE IF resp.graph_path # EmptyStr
       THEN /\ onGraph(r, resp.graph_path)
            /\ lastOp' = DidTo("respondGraph", r.id, r.after)
       ELSE IF resp.message = EmptyStr
       THEN onFailure(r) /\ lastOp' = DidTo("respondFailed", r.id, r.after)
       ELSE /\ onText(r, resp.message)
            /\ lastOp' = DidTo("respondText", r.id, r.after)
    /\ UNCHANGED << abortControllerRef, nextId, crashed >>

-----------------------------------------------------------------------------
(* The timers *)

\* setResultData(prev => prev + nextWord), nextWord = word + " "
\*                                                     Context.jsx:26-30, 179
Reveal(prev, word) == prev \o word \o << SP >>

tokenTimer ==
    /\ ~crashed
    /\ DueTimers # {}
    /\ ~IsFinalize(FirstDue)
    /\ LET t == FirstDue
           p == PlaybackOf(t[1])
       IN  /\ timers' = timers \ { t }
           /\ resultData' = IF ~p.stopped
                            THEN Reveal(resultData, p.words[t[2] + 1])
                            ELSE resultData
           /\ lastOp' = DidTo("token", t[1], p.after)
    /\ playbacks' = Prune(playbacks, timers')
    /\ UNCHANGED << input, recentPrompt, prevPrompts, loading,
                    conversationHistory, chats, currentChatIndex, isStopped,
                    currentChatIsFull, abortControllerRef,
                    timeoutRefs, requests, nextId, crashed >>

\* the callback of finalizeTimeout                     Context.jsx:183-224
finalizeTimeout ==
    /\ ~crashed
    /\ DueTimers # {}
    /\ IsFinalize(FirstDue)
    /\ LET t == FirstDue
           p == PlaybackOf(t[1])
           newMessage == TextMessage(p.userQuery, p.botResponse)
       IN  /\ timers' = timers \ { t }
           /\ lastOp' = DidTo("finalize", t[1], p.after)
           /\ IF ~p.stopped
              THEN /\ conversationHistory' =
                          Append(conversationHistory, newMessage)
                   /\ chats' = TextCommit(chats, p.idx, p.userQuery,
                                          p.botResponse, newMessage)
                   /\ CommitPointers(p.idx, p.userQuery)
                   /\ CommitFullness(p.idx)
                   /\ loading' = FALSE
                   /\ resultData' = EmptyStr
                   /\ input' = EmptyStr
                   /\ UNCHANGED << recentPrompt, isStopped >>
              ELSE UNCHANGED reactState
    /\ playbacks' = Prune(playbacks, timers')
    /\ UNCHANGED << abortControllerRef, timeoutRefs, requests, nextId,
                    crashed >>

\* time passes while no timer is due
Tick ==
    /\ ~crashed
    /\ timers # {}
    /\ DueTimers = {}
    /\ playbacks' = [i \in DOMAIN playbacks |->
                        [playbacks[i] EXCEPT !.elapsed = @ + tickMs]]
    /\ lastOp' = Did("tick", 0)
    /\ UNCHANGED << input, recentPrompt, prevPrompts, loading,
                    resultData, conversationHistory, chats, currentChatIndex,
                    isStopped, currentChatIsFull,
                    abortControllerRef, timeoutRefs, requests, timers, nextId,
                    crashed >>

-----------------------------------------------------------------------------
(* The controls of Main.jsx and of the sidebar *)

\* <input disabled={loading || currentChatIsFull}>     Main.jsx:159
InputDisabled == loading \/ currentChatIsFull

\* onChange of the input field                         Main.jsx:148-160
typeInput(value) == ~InputDisabled /\ setInput(value)

\* onKeyPress of the input field                       Main.jsx:150
pressEnter == ~InputDisabled /\ handleKeyPress

\* the send icon: not loading, not full, input truthy  Main.jsx:163-173
clickSend ==
    /\ ~loading
    /\ ~currentChatIsFull
    /\ input # EmptyStr
    /\ handleSend

\* the stop button replaces the send icon while loading    Main.jsx:163-166
clickStop == loading /\ stopGeneration

\* the "New Chat" button of a full session             Main.jsx:167-170
clickNewChatButton == ~loading /\ currentChatIsFull /\ newChat

\* the "New Chat." entry of the sidebar                part_000:36
clickNewChat == newChat

\* one sidebar entry per element of prevPrompts        part_000:42-50
clickRecent(index) == openChat(index)

\* a consumer of the context sends although the active session is full
\* or shown as full (no control is rendered for it)
ActiveSessionFull ==
    currentChatIndex # Null /\ chats[currentChatIndex + 1].isMemoryFull
sendOnFull(sends) ==
    /\ ActiveSessionFull \/ currentChatIsFull
    /\ nextId <= sends + 1
    /\ handleSend

-----------------------------------------------------------------------------
(* The specifications *)

\* The user drives the handlers through the controls that are rendered.
\* The two guards of the context that no rendered control reaches are
\* exercised by a consumer calling it directly: a send on a full session
\* and openChat with an index outside the list.
\* inputs: what is typed; responses: what the service answers; sends: the
\* number of requests issued in one run.
Budget(sends) == nextId <= sends

NextOf(inputs, responses, sends) ==
    \/ \E value \in inputs : typeInput(value)
    \/ Budget(sends) /\ pressEnter
    \/ Budget(sends) /\ clickSend
    \/ clickStop
    \/ clickNewChatButton
    \/ clickNewChat
    \/ \E index \in 0..(Len(prevPrompts) - 1) : clickRecent(index)
    \/ sendOnFull(sends)
    \/ \E index \in { -1, Len(chats) } : openChat(index)
    \/ \E r \in requests, resp \in responses : Respond(r, resp)
    \/ tokenTimer
    \/ finalizeTimeout
    \/ Tick

Next == NextOf(Inputs, Responses, MaxSends)

Spec == Init /\ [][Next]_vars

\* one more exchange, for what needs a session filled beyond its limit
NextLong == NextOf(Inputs, Responses, LongSends)

SpecLong == Init /\ [][NextLong]_vars

\* the same controls, with the questions of WideInputs typed
NextWide == NextOf(WideInputs, Responses, MaxSends)

SpecWide == Init /\ [][NextWide]_vars

\* the same controls, with the long question typed
NextTitle == NextOf(TitleInputs, Responses, MaxSends)

SpecTitle == Init /\ [][NextTitle]_vars

\* The event loop runs every callback that is ready: a fetch that was not
\* aborted settles (the service answers or the call fails), time passes, and
\* a timer that was not cleared fires when its delay has elapsed.  Nothing
\* obliges the user to act.
FairSpec ==
    /\ Spec
    /\ WF_vars(\E r \in requests, resp \in Responses : Respond(r, resp))
    /\ WF_vars(tokenTimer)
    /\ WF_vars(finalizeTimeout)
    /\ WF_vars(Tick)

-----------------------------------------------------------------------------
(* Vocabulary of the properties *)

Last(seq) == seq[Len(seq)]

RespondOps == { "respondText", "respondGraph", "respondFailed" }
ExchangeOps == RespondOps \cup { "token", "finalize" }

\* the step is one of ops, made by the request or playback lastOp'.arg
StepIs(ops) == lastOp'.op \in ops

\* the request a respond step is about (it is gone after the step)
RequestOf(id) == CHOOSE r \in requests : r.id = id

\* the session a commit with closure index idx writes to, in the new chats
TargetOf(idx) == IF idx = Null THEN Len(chats') ELSE idx + 1

\* session i of the new chats gained exactly the message m, and no other
\* session's messages changed
GainedOnly(i, m) ==
    /\ i \in DOMAIN chats'
    /\ DOMAIN chats \subseteq DOMAIN chats'
    /\ Len(chats') <= Len(chats) + 1
    /\ chats'[i].messages =
           Append(IF i \in DOMAIN chats THEN chats[i].messages ELSE << >>, m)
    /\ \A j \in DOMAIN chats : j # i => chats'[j] = chats[j]

RECURSIVE TotalMessages(_)
TotalMessages(cs) ==
    IF cs = << >> THEN 0 ELSE Len(Head(cs).messages) + TotalMessages(Tail(cs))

\* the first k tokens, each followed by a space
RECURSIVE Revealed(_, _)
Revealed(words, k) ==
    IF k = 0 THEN EmptyStr
    ELSE Revealed(words, k - 1) \o words[k] \o << SP >>

-----------------------------------------------------------------------------
(* C1 *)

\* C1: in every reachable state every session of chats has
\* memory.length <= memoryLimit.
C1_MemoryWithinLimit ==
    \A i \in DOMAIN chats : Len(chats[i].memory) <= memoryLimit

(* C2 *)

\* C2: at most one exchange is in flight: never two outstanding requests,
\* nor a request of one exchange together with pending timers of another.
C2_SingleExchangeInFlight == Cardinality(InFlight) <= 1

(* C3 *)

\* C3: once openChat(valid index) ran while an exchange was in flight, the
\* later response and timers of that exchange change neither chats, nor
\* conversationHistory, resultData, currentChatIndex, currentChatIsFull.
C3_SwitchDiscardsExchange ==
    [][ (StepIs(ExchangeOps) /\ "openChat" \in lastOp'.after)
          => UNCHANGED << chats, conversationHistory, resultData,
                          currentChatIndex, currentChatIsFull >> ]_vars

(* C4 *)

\* C4: after newChat and until the next onSent, the exchanges that were in
\* flight change nothing: currentChatIndex, conversationHistory,
\* resultData, currentChatIsFull, loading and chats stay as newChat left them.
C4_NewChatCancelsInFlight ==
    [][ (StepIs(ExchangeOps) /\ "newChat" \in lastOp'.after)
          => UNCHANGED << currentChatIndex, conversationHistory, resultData,
                          currentChatIsFull, loading, chats >> ]_vars

(* C5 *)

\* C5: a send invoked while the active session's isMemoryFull is true
\* changes no session, not the displayed list, not loading, and issues no
\* request.
C5_SendOnFullSessionRejected ==
    [][ (StepIs({ "send", "sendRejected" }) /\ ActiveSessionFull)
          => UNCHANGED << chats, conversationHistory, loading, requests,
                          nextId >> ]_vars

C5_Witness ==
    /\ lastOp.op = "sendRejected"
    /\ ActiveSessionFull
    /\ requests = {}

(* C6 *)

\* the tokens of the only playback that have been revealed: its words less
\* its pending token timers
OnlyPlayback == playbacks[1]
TokensFired ==
    Len(OnlyPlayback.words)
        - Cardinality({ t \in timers : t[2] < Len(OnlyPlayback.words) })

\* C6: stopGeneration after exactly k of the n token timers fired (finalize
\* pending) commits one message to the active session whose answer is the
\* first k tokens, each followed by a space, when k > 0, and commits
\* nothing when k = 0.
C6_StopCommitsRevealedTokens ==
    [][ ( /\ StepIs({ "stopGeneration" })
          /\ requests = {}
          /\ Len(playbacks) = 1
          /\ << OnlyPlayback.id, Len(OnlyPlayback.words) >> \in timers )
          => IF TokensFired > 0
             THEN /\ currentChatIndex' # Null
                  /\ TotalMessages(chats') = TotalMessages(chats) + 1
                  /\ Last(chats'[currentChatIndex' + 1].messages).answer
                         = Revealed(OnlyPlayback.words, TokensFired)
             ELSE chats' = chats ]_vars

(* C7 *)

\* C7: a request that was outstanding when stopGeneration ran is never
\* committed and never starts a playback, even if its response arrives.
C7_StoppedRequestNeverCommits ==
    [][ (StepIs(RespondOps) /\ "stopGeneration" \in lastOp'.after)
          => UNCHANGED << chats, conversationHistory, timers >> ]_vars

(* C8 *)

\* C8: a failed service call commits {question, apology} to the target
\* session (a new one when there was no active session), and loading
\* becomes false.
C8_FailureCommitsApology ==
    [][ StepIs({ "respondFailed" })
          => LET r == RequestOf(lastOp'.arg)
             IN  /\ GainedOnly(TargetOf(r.idx), ApologyMessage(r.userQuery))
                 /\ loading' = FALSE ]_vars

(* C9 *)

\* C9: when a playback completes and no handler ran while it was in
\* flight (no stop, switch or newChat; a later send needs one of them
\* first), the target session gains exactly the message {question, full
\* answer of the service}, its memory gains the same pair, loading becomes
\* false and resultData is cleared.
C9_CompletionCommitsFullAnswer ==
    [][ (StepIs({ "finalize" }) /\ lastOp'.after = {})
          => LET p == PlaybackOf(lastOp'.arg)
                 i == TargetOf(p.idx)
                 m == [question |-> p.userQuery, answer |-> p.botResponse]
             IN  /\ GainedOnly(i, m)
                 /\ chats'[i].memory =
                        Append(IF i \in DOMAIN chats THEN chats[i].memory
                               ELSE << >>, m)
                 /\ Last(conversationHistory') = m
                 /\ loading' = FALSE
                 /\ resultData' = EmptyStr ]_vars

C9_Witness ==
    /\ lastOp.op = "finalize"
    /\ lastOp.after = {}
    /\ currentChatIndex # Null
    /\ Len(chats[currentChatIndex + 1].messages) = 2
    /\ Last(chats[currentChatIndex + 1].messages).answer = HiThere
    /\ Last(chats[currentChatIndex + 1].memory).answer = HiThere

(* C10 *)

\* C10: a chart response commits at once: no timer is scheduled, the target
\* session gains one message with the question and the chart reference and
\* no answer, its memory and isMemoryFull are unchanged (empty and false in
\* a new session), and loading becomes false.
C10_ChartCommitsAtOnce ==
    [][ StepIs({ "respondGraph" })
          => LET r == RequestOf(lastOp'.arg)
                 i == TargetOf(r.idx)
                 m == Last(chats'[i].messages)
             IN  /\ timers' = timers
                 /\ playbacks' = playbacks
                 /\ GainedOnly(i, m)
                 /\ DOMAIN m = { "question", "graph_path" }
                 /\ m.question = r.userQuery
                 /\ m.graph_path = GraphPath
                 /\ chats'[i].memory =
                        (IF i \in DOMAIN chats THEN chats[i].memory ELSE << >>)
                 /\ chats'[i].isMemoryFull =
                        (IF i \in DOMAIN chats THEN chats[i].isMemoryFull
                         ELSE FALSE)
                 /\ loading' = FALSE ]_vars

C10_Witness ==
    /\ lastOp.op = "respondGraph"
    /\ ~loading
    /\ \E i \in DOMAIN chats :
          /\ Len(chats[i].messages) = 2
          /\ DOMAIN Last(chats[i].messages) = { "question", "graph_path" }
          /\ Len(chats[i].memory) = 1

(* C11 *)

\* C11: openChat(index) with index < 0 or index >= the number of sessions
\* changes none of currentChatIndex, chats, conversationHistory, loading,
\* recentPrompt, resultData, currentChatIsFull.
C11_OutOfRangeOpenChatIsNoOp ==
    [][ ( /\ StepIs({ "openChat", "openChatRejected" })
          /\ (lastOp'.arg < 0 \/ lastOp'.arg >= Len(chats)) )
          => UNCHANGED << currentChatIndex, chats, conversationHistory,
                          loading, recentPrompt, resultData,
                          currentChatIsFull >> ]_vars

\* an index past the last session is refused while an exchange is shown
C11_Witness ==
    /\ lastOp.op = "openChatRejected"
    /\ lastOp.arg = Len(chats)
    /\ Len(chats) > 0
    /\ loading
    /\ recentPrompt # EmptyStr
    /\ resultData # EmptyStr

(* C12 *)

\* C12: in every session isMemoryFull is true exactly when memory.length >=
\* memoryLimit, and a session whose isMemoryFull is true keeps it true
\* through every later step.
C12_FullnessTracksMemoryAndStays ==
    [][ /\ \A i \in DOMAIN chats' :
              chats'[i].isMemoryFull = (Len(chats'[i].memory) >= memoryLimit)
        /\ \A i \in DOMAIN chats :
              chats[i].isMemoryFull
                  => (i \in DOMAIN chats' /\ chats'[i].isMemoryFull) ]_vars

\* a session that filled up, left by newChat and still full
C12_Witness ==
    /\ lastOp.op = "newChat"
    /\ currentChatIndex = Null
    /\ \E i \in DOMAIN chats :
          /\ chats[i].isMemoryFull
          /\ Len(chats[i].memory) = memoryLimit

(* C13 *)

\* nothing of an exchange is left: not loading, no request, no timer
Idle == ~loading /\ requests = {} /\ timers = {}

\* C13: when every request resolves and every timer that is not cleared
\* fires, each accepted send is eventually followed by a state that is not
\* loading, with no outstanding request and no pending timer, in which a
\* send is accepted unless the active session is full; and no sequence of
\* operations reaches an error state.
C13_AlwaysReturnsToIdle ==
    /\ [](~crashed)
    /\ (lastOp.op = "send")
           ~> (Idle /\ (ActiveSessionFull \/ ~SendRejected))

(* C14 *)

\* C14: a send whose query is empty after trimming white space changes
\* nothing: loading, recentPrompt and resultData are unchanged and no
\* request is issued (so nothing is ever committed for it).
C14_BlankSendRejected ==
    [][ (StepIs({ "send", "sendRejected" }) /\ Trim(input) = EmptyStr)
          => UNCHANGED << loading, recentPrompt, resultData, requests,
                          nextId, chats, conversationHistory >> ]_vars

(* C15 *)

\* C15: in every reachable state currentChatIsFull is true exactly when
\* there is an active session and its isMemoryFull is true.
C15_FullFlagAgreesWithActiveSession ==
    currentChatIsFull = ActiveSessionFull

(* C16 *)

\* C16: stopGeneration leaves no timer pending and no request outstanding,
\* loading false, resultData empty and the question back in the input
\* field; and from then until the next send no token or finalize timer of
\* an earlier exchange changes resultData or commits an answer.
C16_NothingFiresAfterStop ==
    [][ /\ StepIs({ "stopGeneration" })
              => /\ timers' = {}
                 /\ requests' = {}
                 /\ loading' = FALSE
                 /\ resultData' = EmptyStr
                 /\ input' = recentPrompt'
        /\ (StepIs({ "token", "finalize" }) /\ "stop" \in lastOp'.after)
              => UNCHANGED << resultData, chats, conversationHistory >> ]_vars

(* C17 *)

\* C17: in every reachable state loading is true exactly when a request is
\* outstanding or a token or finalize timer is pending.
C17_LoadingIffWorkInFlight ==
    loading = (requests # {} \/ timers # {})

(* C18 *)

\* C18: stopGeneration during the playback of the first exchange of a chat
\* that has no session yet (currentChatIndex null), after at least one
\* token was revealed, ends without an error, appends a session holding
\* only the message {question, partial text} and makes it the active one.
C18_StopCreatesSessionForPartial ==
    [][ ( /\ StepIs({ "stopGeneration" })
          /\ currentChatIndex = Null
          /\ requests = {}
          /\ Len(playbacks) = 1
          /\ OnlyPlayback.idx = Null
          /\ TokensFired > 0 )
          => /\ ~crashed'
             /\ Len(chats') = Len(chats) + 1
             /\ Last(chats').messages =
                    << [question |-> OnlyPlayback.userQuery,
                        answer |-> Revealed(OnlyPlayback.words, TokensFired)] >>
             /\ currentChatIndex' = Len(chats') - 1 ]_vars

(* C19 *)

\* the {question, answer} pairs of the messages that are not charts
TextualPairs(messages) ==
    SelectSeq(messages, LAMBDA m : "answer" \in DOMAIN m)

\* C19: in every reachable state the memory of every session is the
\* sequence of the {question, answer} pairs of its non-chart messages, in
\* order, as far as the memory limit allows.
C19_MemoryMirrorsTextMessages ==
    \A i \in DOMAIN chats :
        LET pairs == TextualPairs(chats[i].messages)
        IN  IF Len(pairs) <= memoryLimit
            THEN chats[i].memory = pairs
            ELSE /\ Len(chats[i].memory) >= memoryLimit
                 /\ SubSeq(chats[i].memory, 1, memoryLimit)
                        = SubSeq(pairs, 1, memoryLimit)

(* C20 *)

\* the exchange a chart response or a finalize timer commits: the index
\* and the question its send captured
CommittedExchange ==
    IF lastOp'.op = "finalize" THEN PlaybackOf(lastOp'.arg)
    ELSE RequestOf(lastOp'.arg)

\* C20: when the exchange of a send made with no active session is
\* committed (chart response, or playback completed), one session is
\* appended at the end of chats, its title the first 20 characters of the
\* question, its messages that exchange alone, and currentChatIndex becomes
\* its index; when the send was made with an active session, the number of
\* sessions is unchanged and the message is appended to the session that
\* was active at the send.
C20_CommitTargetsSessionOfSend ==
    [][ StepIs({ "respondGraph", "finalize" })
          => LET idx == CommittedExchange.idx
                 q == CommittedExchange.userQuery
             IN  IF idx = Null
                 THEN /\ Len(chats') = Len(chats) + 1
                      /\ SubSeq(chats', 1, Len(chats)) = chats
                      /\ Last(chats').title =
                             [k \in 1..Min(titleLength, Len(q)) |-> q[k]]
                      /\ Len(Last(chats').messages) = 1
                      /\ Last(chats').messages[1].question = q
                      /\ currentChatIndex' = Len(chats') - 1
                 ELSE /\ Len(chats') = Len(chats)
                      /\ \A j \in DOMAIN chats :
                            j # idx + 1 => chats'[j] = chats[j]
                      /\ Len(chats'[idx + 1].messages) =
                             Len(chats[idx + 1].messages) + 1
                      /\ SubSeq(chats'[idx + 1].messages, 1,
                                Len(chats[idx + 1].messages))
                             = chats[idx + 1].messages
                      /\ Last(chats'[idx + 1].messages).question = q
                      /\ chats'[idx + 1].title = chats[idx + 1].title ]_vars

\* a session created by a question longer than a title, to which a second
\* exchange was then committed
C20_Witness ==
    /\ lastOp.op \in { "respondGraph", "finalize" }
    /\ Len(chats) = 1
    /\ currentChatIndex = 0
    /\ Len(chats[1].messages) = 2
    /\ chats[1].messages[1].question = LongQuery
    /\ Len(chats[1].title) = titleLength
    /\ Len(LongQuery) > titleLength

(* C21 *)

IsPrefix(s, t) == Len(s) <= Len(t) /\ SubSeq(t, 1, Len(s)) = s

\* C21: across every step the sessions of the earlier state are still
\* there, in the same order and with the same titles, and the earlier
\* messages and memory of each are prefixes of its later ones.
C21_SessionsOnlyGrow ==
    [][ /\ Len(chats) <= Len(chats')
        /\ \A i \in DOMAIN chats :
              /\ chats'[i].title = chats[i].title
              /\ IsPrefix(chats[i].messages, chats'[i].messages)
              /\ IsPrefix(chats[i].memory, chats'[i].memory) ]_vars

\* a partial answer committed by stopGeneration after an earlier exchange
\* of the same session
C21_Witness ==
    /\ lastOp.op = "stopGeneration"
    /\ ~crashed
    /\ currentChatIndex # Null
    /\ Len(chats[currentChatIndex + 1].messages) = 2
    /\ Len(chats[currentChatIndex + 1].memory) = 1
    /\ Last(chats[currentChatIndex + 1].messages).answer = << "h", "i", SP >>

(* C22 *)

\* an exchange that ran by itself: no request was outstanding at its send
\* and no handler ran while it was in flight
Undisturbed(p) == p.alone /\ p.after = {}

\* the answer "hi there" is the one being played, by itself, and every
\* callback that is due has run
PlayingHiThere ==
    /\ Len(playbacks) = 1
    /\ Undisturbed(OnlyPlayback)
    /\ OnlyPlayback.botResponse = HiThere
    /\ DueTimers = {}

\* the number of tokens revealed at time t when token number i (the first
\* one being number first) is revealed at delayPerToken * i
TokensAt(t, n, first) ==
    Cardinality({ i \in first..(first + n - 1) : delayPerToken * i <= t })

\* the finalize timer runs at 250, all tokens revealed
CompletesAt250 ==
    (StepIs({ "finalize" }) /\ Undisturbed(PlaybackOf(lastOp'.arg)))
        => /\ PlaybackOf(lastOp'.arg).elapsed = 250
           /\ resultData =
                  Revealed(PlaybackOf(lastOp'.arg).words,
                           Len(PlaybackOf(lastOp'.arg).words))

\* C22: for the text response "hi there" played from time 0 the
\* accumulator is empty before 75, "hi " from 75, "hi there " from 150, and
\* the exchange is committed at 250, after all tokens were revealed.
C22_PlaybackTimesAsStated ==
    [][ /\ PlayingHiThere'
              => resultData' =
                     Revealed(OnlyPlayback'.words,
                              TokensAt(OnlyPlayback'.elapsed, 2, 1))
        /\ CompletesAt250 ]_vars

\* C22, amended: the tokens are counted from 0: the accumulator is "hi "
\* from time 0, "hi there " from 75, and the exchange is committed at 250,
\* after all tokens were revealed.
C22_PlaybackTimesFromZero ==
    [][ /\ PlayingHiThere'
              => resultData' =
                     Revealed(OnlyPlayback'.words,
                              TokensAt(OnlyPlayback'.elapsed, 2, 0))
        /\ CompletesAt250 ]_vars

\* both tokens shown at 75, the commit still to come
C22_Witness ==
    /\ PlayingHiThere
    /\ OnlyPlayback.elapsed = 75
    /\ resultData = << "h", "i", SP, "t", "h", "e", "r", "e", SP >>
    /\ timers = { << OnlyPlayback.id, 2 >> }

(* C23 *)

\* stopGeneration runs 100 after the start of the playback of "hi there",
\* played by itself in a session that existed at the send
StopAt100InSession ==
    /\ StepIs({ "stopGeneration" })
    /\ PlayingHiThere
    /\ OnlyPlayback.elapsed = 100
    /\ OnlyPlayback.idx # Null
    /\ currentChatIndex = OnlyPlayback.idx

\* the stop commits one message with this answer to the active session and
\* leaves no timer
StopCommits(answer) ==
    /\ Len(chats'[currentChatIndex + 1].messages) =
           Len(chats[currentChatIndex + 1].messages) + 1
    /\ Last(chats'[currentChatIndex + 1].messages).answer = answer
    /\ timers' = {}

\* C23: for the text response "hi there" in an existing session,
\* stopGeneration at time 100 commits a message whose answer is "hi ", and
\* no token timer is left to fire.
C23_StopAt100CommitsFirstToken ==
    [][ StopAt100InSession => StopCommits(<< "h", "i", SP >>) ]_vars

\* C23, amended: at time 100 both tokens have been revealed (at 0 and at
\* 75): the stop commits a message whose answer is "hi there ", and no
\* timer is left to fire.
C23_StopAt100CommitsBothTokens ==
    [][ StopAt100InSession
          => StopCommits(<< "h", "i", SP, "t", "h", "e", "r", "e", SP >>) ]_vars

\* the session after a stop at 100
C23_Witness ==
    /\ lastOp.op = "stopGeneration"
    /\ lastOp.arg = 100
    /\ ~crashed
    /\ currentChatIndex # Null
    /\ Len(chats[currentChatIndex + 1].messages) = 2
    /\ Last(chats[currentChatIndex + 1].messages).answer =
           << "h", "i", SP, "t", "h", "e", "r", "e", SP >>
    /\ timers = {}
    /\ requests = {}

(* C24 *)

\* C24: newChat leaves chats and prevPrompts as they are, sets
\* currentChatIndex to null, empties conversationHistory, recentPrompt and
\* resultData and sets loading and currentChatIsFull to false; an openChat
\* that follows it shows the messages the session held before the newChat.
C24_NewChatKeepsSessions ==
    [][ /\ StepIs({ "newChat" })
              => /\ chats' = chats
                 /\ prevPrompts' = prevPrompts
                 /\ currentChatIndex' = Null
                 /\ conversationHistory' = << >>
                 /\ recentPrompt' = EmptyStr
                 /\ resultData' = EmptyStr
                 /\ loading' = FALSE
                 /\ currentChatIsFull' = FALSE
        /\ (lastOp.op = "newChat" /\ StepIs({ "openChat" }))
              => /\ chats' = chats
                 /\ currentChatIndex' = lastOp'.arg
                 /\ conversationHistory' = chats[lastOp'.arg + 1].messages ]_vars

\* newChat left a stored session and an exchange in flight
C24_Witness ==
    /\ lastOp.op = "newChat"
    /\ currentChatIndex = Null
    /\ ~currentChatIsFull
    /\ conversationHistory = << >>
    /\ requests # {}
    /\ \E i \in DOMAIN chats : Len(chats[i].messages) > 0
    /\ Len(prevPrompts) = Len(chats)

(* C25 *)

\* C25: whenever the controller is idle and a session is active, the
\* displayed list conversationHistory is that session's stored messages
\* (nothing is displayed that the active session does not store).
C25_DisplayIsActiveSession ==
    (Idle /\ currentChatIndex # Null)
        => conversationHistory = chats[currentChatIndex + 1].messages

(* C26 *)

\* C26: during playback resultData is empty or the first k tokens, each
\* followed by a space, of one answer being played; never the tokens of
\* two answers interleaved, nor tokens out of order.
C26_AccumulatorIsPrefixOfOneAnswer ==
    playbacks # << >>
        => \/ resultData = EmptyStr
           \/ \E i \in DOMAIN playbacks :
                 \E k \in 1..Len(playbacks[i].words) :
                    resultData = Revealed(playbacks[i].words, k)

(* C27 *)

\* C27: in every reachable state currentChatIndex is null or the index of
\* an existing session: 0 <= currentChatIndex < chats.length.
C27_ActiveIndexInRange ==
    currentChatIndex = Null
        \/ (0 <= currentChatIndex /\ currentChatIndex < Len(chats))

\* the second session created became the active one
C27_Witness ==
    /\ lastOp.op \in { "respondGraph", "finalize" }
    /\ Len(chats) = 2
    /\ currentChatIndex = 1

(* C28 *)

\* C28: in every reachable state the sidebar list has one entry per
\* session, entry i being the title of session i.
C28_SidebarAlignedWithSessions ==
    /\ Len(prevPrompts) = Len(chats)
    /\ \A i \in DOMAIN chats : prevPrompts[i] = chats[i].title

\* two sessions listed; the second entry was clicked and opened the second
C28_Witness ==
    /\ lastOp.op = "openChat"
    /\ lastOp.arg = 1
    /\ Len(prevPrompts) = 2
    /\ currentChatIndex = 1
    /\ conversationHistory = chats[2].messages

====
